---- MODULE Spec2Model ----
(***************************************************************************)
(* Model of backend/main.py of markdown-to-pdf: the bullet normalizer      *)
(* (normalize_markdown_bullets), the line-scanning DOCX builder            *)
(* (convert_to_docx), the PDF conversion handler (convert_to_pdf), the     *)
(* process-wide artifact registry (temp_files) and download_file.          *)
(*                                                                         *)
(* Text is a sequence of characters; a character is a one-token string.    *)
(* "LF", "CR", "TAB" and "BACKTICK" stand for \n, \r, \t and the grave  *)
(* accent; "BULLET", "ENDASH",                                             *)
(* "EMDASH", "BULLETOP", "MIDDOT" and "TRIBULLET" stand for U+2022,        *)
(* U+2013, U+2014, U+2219, U+00B7 and U+2023.                              *)
(***************************************************************************)
EXTENDS Integers, Sequences, FiniteSets, TLC

VARIABLES
    content,            \* normalizer: the text under test (the caller's input)
    arg,                \* normalizer: the argument of the call in progress
    lines,              \* normalizer: lines = content.splitlines()
    idx,                \* normalizer: position of the for loop in lines
    normalized_lines,   \* normalizer: the output list
    inside_code_fence,  \* normalizer: the fence bit
    previous_raw_line,  \* normalizer: one line of lookback
    npc,                \* normalizer: control point
    ret,                \* normalizer: return values of the calls made so far
    kind,               \* request -> "pdf" | "docx" | "none"
    title,              \* request -> request.title
    body,               \* request -> request.content
    pc,                 \* request -> control point of its handler
    dlines,             \* request -> lines of convert_to_docx
    didx,               \* request -> position of the for loop of convert_to_docx
    doc,                \* request -> nodes of the python-docx Document
    file_id,            \* request -> the identifier it minted (0: none yet)
    response,           \* request -> what the handler returned
    temp_files,         \* the artifact registry: identifier -> path, filename
    issued,             \* identifiers uuid4 has returned so far
    disk,               \* paths that exist in the temp directory
    download            \* the outcome of the last download_file call

nvars == <<content, arg, lines, idx, normalized_lines, inside_code_fence,
           previous_raw_line, npc, ret>>
rvars == <<kind, title, body, pc, dlines, didx, doc, file_id, response,
           temp_files, issued, disk, download>>
vars == <<content, arg, lines, idx, normalized_lines, inside_code_fence,
          previous_raw_line, npc, ret, kind, title, body, pc, dlines, didx,
          doc, file_id, response, temp_files, issued, disk, download>>

----------------------------------------------------------------------------
(* Bounds *)

MaxLines == 3
MaxDocLines == 3
NumRequests == 2

----------------------------------------------------------------------------
(* Characters and regular-expression helpers *)

\* \s of Python's re on the characters of the model
WhiteSpace == {" ", "TAB", "LF", "CR"}

IsSpace(c) == c \in WhiteSpace

\* the line boundaries of str.splitlines that the model's texts contain
IsLineBreak(c) == c \in {"LF", "CR"}

Digits == {"0", "1", "2", "3", "4", "5", "6", "7", "8", "9"}

BulletGlyphs == {"ENDASH", "EMDASH", "BULLET", "BULLETOP", "MIDDOT", "TRIBULLET"}

Last(s) == s[Len(s)]

Drop(s, n) == SubSeq(s, n + 1, Len(s))

Take(s, n) == SubSeq(s, 1, n)

\* length of the longest run of characters of the set S in s from position i on
RECURSIVE RunLen(_, _, _)
RunLen(s, i, S) ==
    IF i > Len(s) \/ s[i] \notin S THEN 0 ELSE 1 + RunLen(s, i + 1, S)

\* the number of characters ^\s* consumes
LeadingSpace(s) == RunLen(s, 1, WhiteSpace)

StartsWith(s, p) == Len(s) >= Len(p) /\ Take(s, Len(p)) = p

\* str.splitlines(): break at \n, \r and \r\n; no empty last element
RECURSIVE SplitLinesFrom(_, _, _, _)
SplitLinesFrom(text, i, cur, acc) ==
    IF i > Len(text)
    THEN IF cur = <<>> THEN acc ELSE Append(acc, cur)
    ELSE IF IsLineBreak(text[i])
         THEN IF text[i] = "CR" /\ i < Len(text) /\ text[i + 1] = "LF"
              THEN SplitLinesFrom(text, i + 2, <<>>, Append(acc, cur))
              ELSE SplitLinesFrom(text, i + 1, <<>>, Append(acc, cur))
         ELSE SplitLinesFrom(text, i + 1, Append(cur, text[i]), acc)

SplitLines(text) == SplitLinesFrom(text, 1, <<>>, <<>>)

\* sep.join(ls)
RECURSIVE Join(_, _)
Join(ls, sep) ==
    IF ls = <<>> THEN <<>>
    ELSE IF Len(ls) = 1 THEN ls[1]
    ELSE ls[1] \o sep \o Join(Tail(ls), sep)

----------------------------------------------------------------------------
(* normalize_markdown_bullets *)

\* fence_pattern = ^\s*(three backticks|~~~)
fence_pattern(s) ==
    LET r == Drop(s, LeadingSpace(s))
    IN  StartsWith(r, <<"BACKTICK", "BACKTICK", "BACKTICK">>) \/ StartsWith(r, <<"~", "~", "~">>)

\* heading_pattern = ^\s*#{1,6}\s+
heading_pattern(s) ==
    LET n == LeadingSpace(s)
        k == RunLen(s, n + 1, {"#"})
    IN  /\ k >= 1
        /\ k <= 6
        /\ n + k + 1 <= Len(s)
        /\ IsSpace(s[n + k + 1])

\* list_start_pattern = ^\s*([-*+]\s|\d+\.\s)
list_start_pattern(s) ==
    LET r == Drop(s, LeadingSpace(s))
        d == RunLen(r, 1, Digits)
    IN  \/ /\ Len(r) >= 2
           /\ r[1] \in {"-", "*", "+"}
           /\ IsSpace(r[2])
        \/ /\ d >= 1
           /\ Len(r) >= d + 2
           /\ r[d + 1] = "."
           /\ IsSpace(r[d + 2])

\* re.sub(^(\s*)[glyphs]\s*, \1- , line, count=1) when ^\s*[glyphs] matches
ConvertGlyph(line) ==
    LET n == LeadingSpace(line)
    IN  IF n < Len(line) /\ line[n + 1] \in BulletGlyphs
        THEN LET rest == Drop(line, n + 1)
             IN  Take(line, n) \o <<"-", " ">> \o Drop(rest, LeadingSpace(rest))
        ELSE line

\* re.sub(^(\s*)-(?!\s)(.*)$, \1- \2, line)
SpaceAfterDash(line) ==
    LET n == LeadingSpace(line)
    IN  IF /\ n < Len(line)
           /\ line[n + 1] = "-"
           /\ (n + 2 > Len(line) \/ ~IsSpace(line[n + 2]))
        THEN Take(line, n) \o <<"-", " ">> \o Drop(line, n + 1)
        ELSE line

\* the two rewrites of a line outside a fence
NormalizeLine(raw) == SpaceAfterDash(ConvertGlyph(raw))

AppliesTransformsIgnoringFence(inside) == TRUE

\* if not inside_code_fence
AppliesTransforms(inside) == ~inside

NeedsBlankOnRawLine(prev, raw, line, out) ==
    /\ prev # <<>>
    /\ heading_pattern(prev)
    /\ list_start_pattern(raw)
    /\ out # <<>>
    /\ Last(out) # <<>>

\* the heading/list test and the test that the last emitted line is not blank
NeedsBlank(prev, raw, line, out) ==
    /\ prev # <<>>
    /\ heading_pattern(prev)
    /\ list_start_pattern(line)
    /\ out # <<>>
    /\ Last(out) # <<>>

\* the lines the loop body appends for a line that is not a fence marker
Emitted(inside, prev, raw, out) ==
    IF AppliesTransforms(inside)
    THEN LET line == NormalizeLine(raw)
         IN  IF NeedsBlank(prev, raw, line, out) THEN <<<<>>, line>> ELSE <<line>>
    ELSE <<raw>>

\* if not content: return content; else set up the loop
NormEnter ==
    /\ npc = "call"
    /\ IF arg = <<>>
       THEN /\ ret' = Append(ret, arg)
            /\ npc' = "ret"
            /\ UNCHANGED <<lines, idx, normalized_lines, inside_code_fence,
                           previous_raw_line>>
       ELSE /\ lines' = SplitLines(arg)
            /\ normalized_lines' = <<>>
            /\ inside_code_fence' = FALSE
            /\ previous_raw_line' = <<>>
            /\ idx' = 1
            /\ npc' = "loop"
            /\ UNCHANGED ret
    /\ UNCHANGED <<content, arg>>
    /\ UNCHANGED rvars

\* loop body for a fence marker: toggle, pass through, continue
NormFence ==
    /\ npc = "loop"
    /\ idx <= Len(lines)
    /\ fence_pattern(lines[idx])
    /\ inside_code_fence' = ~inside_code_fence
    /\ normalized_lines' = Append(normalized_lines, lines[idx])
    /\ previous_raw_line' = lines[idx]
    /\ idx' = idx + 1
    /\ UNCHANGED <<content, arg, lines, npc, ret>>
    /\ UNCHANGED rvars

\* loop body for any other line
NormLine ==
    /\ npc = "loop"
    /\ idx <= Len(lines)
    /\ ~fence_pattern(lines[idx])
    /\ normalized_lines' = normalized_lines \o
           Emitted(inside_code_fence, previous_raw_line, lines[idx], normalized_lines)
    /\ previous_raw_line' = lines[idx]
    /\ idx' = idx + 1
    /\ UNCHANGED <<content, arg, lines, inside_code_fence, npc, ret>>
    /\ UNCHANGED rvars

\* return "\n".join(normalized_lines)
NormReturn ==
    /\ npc = "loop"
    /\ idx > Len(lines)
    /\ ret' = Append(ret, Join(normalized_lines, <<"LF">>))
    /\ npc' = "ret"
    /\ UNCHANGED <<content, arg, lines, idx, normalized_lines, inside_code_fence,
                   previous_raw_line>>
    /\ UNCHANGED rvars

\* the caller normalizes the text it got back
NormAgain ==
    /\ npc = "ret"
    /\ Len(ret) = 1
    /\ arg' = ret[1]
    /\ npc' = "call"
    /\ UNCHANGED <<content, lines, idx, normalized_lines, inside_code_fence,
                   previous_raw_line, ret>>
    /\ UNCHANGED rvars

----------------------------------------------------------------------------
(* Inputs *)

\* all sequences over S of length at most n
SeqsUpTo(S, n) == UNION {[1..k -> S] : k \in 0..n}

\* the texts made of at most n lines of S, with either line terminator,
\* with or without a terminator after the last line
Texts(S, n) ==
    UNION {{Join(ls, sep) \o trail : ls \in SeqsUpTo(S, n), trail \in {<<>>, sep}} :
              sep \in {<<"LF">>, <<"CR", "LF">>}}

NormLineSet ==
    { <<>>,
      <<"#", " ", "T">>,
      <<"-", " ", "a">>,
      <<"-", "a">>,
      <<"BULLET", "a">>,
      <<" ", "ENDASH", " ", "a">>,
      <<"BACKTICK", "BACKTICK", "BACKTICK">>,
      <<" ", "~", "~", "~">>,
      <<"-", "-", "-">>,
      <<"1", ".", " ", "a">>,
      <<"a">> }

Requests == 1..NumRequests

\* the request side at rest
RequestsIdle ==
    /\ kind = [r \in Requests |-> "none"]
    /\ title = [r \in Requests |-> <<>>]
    /\ body = [r \in Requests |-> <<>>]
    /\ pc = [r \in Requests |-> "idle"]
    /\ dlines = [r \in Requests |-> <<>>]
    /\ didx = [r \in Requests |-> 0]
    /\ doc = [r \in Requests |-> <<>>]
    /\ file_id = [r \in Requests |-> 0]
    /\ response = [r \in Requests |-> [status |-> 0]]
    /\ temp_files = [i \in {} |-> 0]
    /\ issued = {}
    /\ disk = {}
    /\ download = [status |-> 0]

\* the normalizer side at rest
NormalizerIdle ==
    /\ content = <<>>
    /\ arg = <<>>
    /\ lines = <<>>
    /\ idx = 0
    /\ normalized_lines = <<>>
    /\ inside_code_fence = FALSE
    /\ previous_raw_line = <<>>
    /\ npc = "idle"
    /\ ret = <<>>

InitNorm ==
    /\ content \in Texts(NormLineSet, MaxLines)
    /\ arg = content
    /\ lines = <<>>
    /\ idx = 0
    /\ normalized_lines = <<>>
    /\ inside_code_fence = FALSE
    /\ previous_raw_line = <<>>
    /\ npc = "call"
    /\ ret = <<>>
    /\ RequestsIdle

NextNorm == NormEnter \/ NormFence \/ NormLine \/ NormReturn \/ NormAgain

SpecNorm == InitNorm /\ [][NextNorm]_vars

----------------------------------------------------------------------------
(* Properties of the normalizer *)

\* the number of lines of a text, as the normalizer itself counts them
LineCount(text) == Len(SplitLines(text))

\* the number of fence-marker lines among the first n lines of ls
RECURSIVE FenceCount(_, _)
FenceCount(ls, n) ==
    IF n = 0 THEN 0
    ELSE FenceCount(ls, n - 1) + (IF fence_pattern(ls[n]) THEN 1 ELSE 0)

\* an odd number of fence-marker lines among the first n lines of ls
OddFences(ls, n) == FenceCount(ls, n) % 2 = 1

\* a line made only of three or more hyphens, optionally indented
IsHorizontalRule(s) ==
    LET n == LeadingSpace(s)
        k == RunLen(s, n + 1, {"-"})
    IN  k >= 3 /\ n + k = Len(s)

\* C1: normalizing the result of a normalization gives the identical string:
\* once both calls have returned, the second result equals the first.
C1_Idempotent ==
    (npc = "ret" /\ Len(ret) = 2) => ret[2] = ret[1]

\* C2: the output of the normalizer has at least as many lines as its input.
C2_LineCountMonotone ==
    Len(ret) >= 1 => LineCount(ret[1]) >= LineCount(content)

\* C3: fence safety: a line that is not a fence marker and comes after an odd
\* number of fence-marker lines is appended byte-identical, and nothing else
\* (no blank line) is appended with it.
C3_FenceSafety ==
    [][(NormLine /\ OddFences(lines, idx - 1))
         => normalized_lines' = Append(normalized_lines, lines[idx])]_vars

\* a glyph line directly after a heading-looking line, both inside an
\* unterminated fence, was emitted as it is
C3_Witness ==
    /\ npc = "loop"
    /\ idx = 4
    /\ Len(lines) = 3
    /\ OddFences(lines, 2)
    /\ heading_pattern(lines[2])
    /\ ~fence_pattern(lines[3])
    /\ NormalizeLine(lines[3]) # lines[3]
    /\ list_start_pattern(NormalizeLine(lines[3]))
    /\ normalized_lines = lines

\* C4: heading/list separation: when a heading line outside a fence is
\* directly followed by a line whose normalized form starts a list item, the
\* loop appends exactly one blank line and then the normalized line right
\* after the heading; and in the output no list-item line outside a fence
\* directly follows a heading line.
C4_HeadingListSeparation ==
    /\ [][(/\ NormLine
           /\ idx > 1
           /\ heading_pattern(lines[idx - 1])
           /\ ~OddFences(lines, idx - 1)
           /\ list_start_pattern(NormalizeLine(lines[idx])))
          => (/\ Last(normalized_lines) = lines[idx - 1]
              /\ normalized_lines' =
                     normalized_lines \o <<<<>>, NormalizeLine(lines[idx])>>)]_vars
    /\ [](\A j \in 1..(Len(normalized_lines) - 1) :
             ~(/\ heading_pattern(normalized_lines[j])
               /\ ~OddFences(normalized_lines, j)
               /\ list_start_pattern(normalized_lines[j + 1])))

\* "# T\n- a\n- a" was normalized to "# T\n\n- a\n- a"
C4_Witness ==
    /\ content = <<"#", " ", "T", "LF", "-", " ", "a", "LF", "-", " ", "a">>
    /\ Len(ret) >= 1
    /\ ret[1] = <<"#", " ", "T", "LF", "LF", "-", " ", "a", "LF", "-", " ", "a">>

\* C10: a horizontal-rule line outside a fence is emitted unchanged.
C10_HorizontalRuleKept ==
    (/\ npc = "loop"
     /\ idx > 1
     /\ IsHorizontalRule(lines[idx - 1])
     /\ ~inside_code_fence)
    => Last(normalized_lines) = lines[idx - 1]

----------------------------------------------------------------------------
(* String helpers of the request handlers *)

\* str.strip(): drop leading and trailing whitespace
RECURSIVE StripRight(_)
StripRight(s) ==
    IF s # <<>> /\ IsSpace(Last(s)) THEN StripRight(Take(s, Len(s) - 1)) ELSE s

Strip(s) == StripRight(Drop(s, LeadingSpace(s)))

\* str.split(sep): cut at the non-overlapping occurrences of sep, left to right
RECURSIVE SplitFrom(_, _, _, _, _)
SplitFrom(text, sep, i, cur, acc) ==
    IF i > Len(text) THEN Append(acc, cur)
    ELSE IF i + Len(sep) - 1 <= Len(text) /\ SubSeq(text, i, i + Len(sep) - 1) = sep
         THEN SplitFrom(text, sep, i + Len(sep), <<>>, Append(acc, cur))
         ELSE SplitFrom(text, sep, i + 1, Append(cur, text[i]), acc)

Split(text, sep) == SplitFrom(text, sep, 1, <<>>, <<>>)

\* sep in text
Contains(text, sep) ==
    \E i \in 1..(Len(text) - Len(sep) + 1) : SubSeq(text, i, i + Len(sep) - 1) = sep

\* str.replace(' ', '_')
ReplaceSpaces(s) == [i \in 1..Len(s) |-> IF s[i] = " " THEN "_" ELSE s[i]]

StarStar == <<"*", "*">>

----------------------------------------------------------------------------
(* convert_to_docx: the line-model document builder *)

BoldOnEvenSegments(i) == i % 2 = 0

\* a segment is bold when its 0-based index i is odd: if i % 2 == 0 plain else bold
BoldAt(i) == i % 2 # 0

\* the runs of a paragraph
Runs(text) ==
    IF Contains(text, StarStar)
    THEN LET parts == Split(text, StarStar)
         IN  [i \in 1..Len(parts) |-> [text |-> parts[i], bold |-> BoldAt(i - 1)]]
    ELSE <<[text |-> text, bold |-> FALSE]>>

NodesOfKeepingMarkers(line) ==
    IF StartsWith(line, <<"#", " ">>)
    THEN <<[type |-> "heading", level |-> 1, text |-> Drop(line, 2)]>>
    ELSE IF StartsWith(line, <<"#", "#", " ">>)
    THEN <<[type |-> "heading", level |-> 2, text |-> Drop(line, 3)]>>
    ELSE IF StartsWith(line, <<"#", "#", "#", " ">>)
    THEN <<[type |-> "heading", level |-> 3, text |-> Drop(line, 4)]>>
    ELSE IF StartsWith(line, <<"#", "#", "#", "#", " ">>)
    THEN <<[type |-> "heading", level |-> 4, text |-> Drop(line, 5)]>>
    ELSE <<[type |-> "paragraph", runs |-> Runs(line)]>>

\* the nodes one stripped, non-blank line adds to the document
NodesOf(line) ==
    IF StartsWith(line, <<"#", " ">>)
    THEN <<[type |-> "heading", level |-> 1, text |-> Drop(line, 2)]>>
    ELSE IF StartsWith(line, <<"#", "#", " ">>)
    THEN <<[type |-> "heading", level |-> 2, text |-> Drop(line, 3)]>>
    ELSE IF StartsWith(line, <<"#", "#", "#", " ">>)
    THEN <<[type |-> "heading", level |-> 3, text |-> Drop(line, 4)]>>
    ELSE IF StartsWith(line, <<"#", "#", "#", "#", " ">>)
    THEN <<[type |-> "heading", level |-> 4, text |-> Drop(line, 5)]>>
    ELSE IF StartsWith(line, <<"BACKTICK", "BACKTICK", "BACKTICK">>)
    THEN <<>>
    ELSE <<[type |-> "paragraph", runs |-> Runs(line)]>>

\* os.path.join(temp_dir, file_id + extension)
PathOf(f, ext) == [id |-> f, ext |-> ext]

PdfExt == <<".", "p", "d", "f">>

DocxExt == <<".", "d", "o", "c", "x">>

\* the registry entry of an artifact
EntryOf(f, t, ext) == [path |-> PathOf(f, ext), filename |-> ReplaceSpaces(t) \o ext]

IDs == 1..NumRequests

Uuid4Repeating(used) == IDs

\* uuid.uuid4(): an identifier that was never returned before
Uuid4(used) == IDs \ used

\* temp_files[f] = entry
Registered(reg, f, entry) ==
    [i \in (DOMAIN reg) \cup {f} |-> IF i = f THEN entry ELSE reg[i]]

\* md.convert, Document(), add_heading(title, 0), content.split('\n')
DocxBegin(r) ==
    /\ kind[r] = "docx"
    /\ pc[r] = "d_start"
    /\ doc' = [doc EXCEPT ![r] = <<[type |-> "heading", level |-> 0, text |-> title[r]]>>]
    /\ dlines' = [dlines EXCEPT ![r] = Split(body[r], <<"LF">>)]
    /\ didx' = [didx EXCEPT ![r] = 1]
    /\ pc' = [pc EXCEPT ![r] = "d_loop"]
    /\ UNCHANGED <<kind, title, body, file_id, response, temp_files, issued, disk,
                   download>>
    /\ UNCHANGED nvars

\* one iteration of the for loop
DocxLine(r) ==
    /\ pc[r] = "d_loop"
    /\ didx[r] <= Len(dlines[r])
    /\ LET line == Strip(dlines[r][didx[r]])
       IN  doc' = [doc EXCEPT ![r] = IF line = <<>> THEN @ ELSE @ \o NodesOf(line)]
    /\ didx' = [didx EXCEPT ![r] = @ + 1]
    /\ UNCHANGED <<kind, title, body, pc, dlines, file_id, response, temp_files,
                   issued, disk, download>>
    /\ UNCHANGED nvars

\* uuid4, doc.save, temp_files[file_id] = ..., return
DocxFinish(r) ==
    /\ pc[r] = "d_loop"
    /\ didx[r] > Len(dlines[r])
    /\ \E f \in Uuid4(issued) :
          /\ issued' = issued \cup {f}
          /\ file_id' = [file_id EXCEPT ![r] = f]
          /\ disk' = disk \cup {PathOf(f, DocxExt)}
          /\ temp_files' = Registered(temp_files, f, EntryOf(f, title[r], DocxExt))
          /\ response' = [response EXCEPT ![r] = [status |-> 200, download_url |-> f]]
    /\ pc' = [pc EXCEPT ![r] = "done"]
    /\ UNCHANGED <<kind, title, body, dlines, didx, doc, download>>
    /\ UNCHANGED nvars

\* except Exception, raised by md.convert, the builder or a python-docx call
DocxFail(r) ==
    /\ kind[r] = "docx"
    /\ pc[r] \in {"d_start", "d_loop"}
    /\ pc' = [pc EXCEPT ![r] = "failed"]
    /\ response' = [response EXCEPT ![r] =
                       [status |-> 500, detail |-> "DOCX conversion failed"]]
    /\ UNCHANGED <<kind, title, body, dlines, didx, doc, file_id, temp_files, issued,
                   disk, download>>
    /\ UNCHANGED nvars

\* except Exception, raised by doc.save: the identifier is minted, a partial
\* file may be left behind, nothing is registered
DocxSaveFail(r) ==
    /\ pc[r] = "d_loop"
    /\ didx[r] > Len(dlines[r])
    /\ \E f \in Uuid4(issued) :
          /\ issued' = issued \cup {f}
          /\ file_id' = [file_id EXCEPT ![r] = f]
          /\ disk' \in {disk, disk \cup {PathOf(f, DocxExt)}}
    /\ pc' = [pc EXCEPT ![r] = "failed"]
    /\ response' = [response EXCEPT ![r] =
                       [status |-> 500, detail |-> "DOCX conversion failed"]]
    /\ UNCHANGED <<kind, title, body, dlines, didx, doc, temp_files, download>>
    /\ UNCHANGED nvars

----------------------------------------------------------------------------
(* Inputs and specification of the document builder *)

DocLineSet ==
    { <<>>,
      <<"#", " ", "T">>,
      <<"#", "#", " ", "H">>,
      <<"#", "#", "#", "#", "#", " ", "x">>,
      <<"BACKTICK", "BACKTICK", "BACKTICK">>,
      <<"~", "~", "~">>,
      <<"a", " ", "*", "*", "b", "*", "*", " ", "c">>,
      <<"a", " ", "*", "*", "b", " ", "c">>,
      <<"*", "*", "*">>,
      <<" ", "x", " ">> }

Titles == {<<"M", "y", " ", "D", "o", "c">>, <<"D", "o", "c">>}

\* request 1 is a DOCX conversion; the others make no call
InitDocx ==
    /\ NormalizerIdle
    /\ kind = [r \in Requests |-> IF r = 1 THEN "docx" ELSE "none"]
    /\ title \in [Requests -> {<<"D", "o", "c">>}]
    /\ \E t \in Texts(DocLineSet, MaxDocLines) :
          body = [r \in Requests |-> IF r = 1 THEN t ELSE <<>>]
    /\ pc = [r \in Requests |-> IF r = 1 THEN "d_start" ELSE "idle"]
    /\ dlines = [r \in Requests |-> <<>>]
    /\ didx = [r \in Requests |-> 0]
    /\ doc = [r \in Requests |-> <<>>]
    /\ file_id = [r \in Requests |-> 0]
    /\ response = [r \in Requests |-> [status |-> 0]]
    /\ temp_files = [i \in {} |-> 0]
    /\ issued = {}
    /\ disk = {}
    /\ download = [status |-> 0]

NextDocx ==
    \E r \in Requests :
        DocxBegin(r) \/ DocxLine(r) \/ DocxFinish(r) \/ DocxFail(r) \/ DocxSaveFail(r)

SpecDocx == InitDocx /\ [][NextDocx]_vars

----------------------------------------------------------------------------
(* Properties of the document builder *)

Backticks == <<"BACKTICK", "BACKTICK", "BACKTICK">>

Tildes == <<"~", "~", "~">>

\* a fence-marker line of the document path: triple backtick or triple tilde
IsDocFence(raw) == StartsWith(Strip(raw), Backticks) \/ StartsWith(Strip(raw), Tildes)

\* the number of fence-marker lines among the first n lines of ls
RECURSIVE DocFenceCount(_, _)
DocFenceCount(ls, n) ==
    IF n = 0 THEN 0
    ELSE DocFenceCount(ls, n - 1) + (IF IsDocFence(ls[n]) THEN 1 ELSE 0)

\* the stripped line is one the builder classifies as a paragraph
IsParagraphLine(line) ==
    /\ line # <<>>
    /\ \A k \in 1..4 : ~StartsWith(line, [i \in 1..(k + 1) |-> IF i <= k THEN "#" ELSE " "])
    /\ ~StartsWith(line, Backticks)

RunTexts(runs) == [i \in 1..Len(runs) |-> runs[i].text]

C8_BoldParity ==
    [][\A r \in Requests :
         (DocxLine(r) /\ IsParagraphLine(Strip(dlines[r][didx[r]])))
         => LET line == Strip(dlines[r][didx[r]])
                node == Last(doc'[r])
                R == node.runs
            IN  /\ doc'[r] = Append(doc[r], node)
                /\ node.type = "paragraph"
                /\ Join(RunTexts(R), StarStar) = line
                /\ \A i \in 1..Len(R) :
                      /\ ~Contains(R[i].text, StarStar)
                      /\ R[i].bold = ((i - 1) % 2 = 1)
                /\ ~Contains(line, StarStar) => R = <<[text |-> line, bold |-> FALSE]>>
                /\ (Len(R) % 2 = 0) => Last(R).bold
                /\ line = <<"a", " ", "*", "*", "b", "*", "*", " ", "c">>
                      => R = <<[text |-> <<"a", " ">>, bold |-> FALSE],
                               [text |-> <<"b">>, bold |-> TRUE],
                               [text |-> <<" ", "c">>, bold |-> FALSE]>>
                /\ line = <<"a", " ", "*", "*", "b", " ", "c">>
                      => R = <<[text |-> <<"a", " ">>, bold |-> FALSE],
                               [text |-> <<"b", " ", "c">>, bold |-> TRUE]>>]_vars

\* the line "a **b c" has become a paragraph that ends in the bold run "b c"
C8_Witness ==
    /\ pc[1] = "d_loop"
    /\ didx[1] = 2
    /\ Strip(dlines[1][1]) = <<"a", " ", "*", "*", "b", " ", "c">>
    /\ Len(doc[1]) = 2
    /\ doc[1][2] = [type |-> "paragraph",
                    runs |-> <<[text |-> <<"a", " ">>, bold |-> FALSE],
                               [text |-> <<"b", " ", "c">>, bold |-> TRUE]>>]

----------------------------------------------------------------------------
(* convert_to_pdf *)

PdfRunning == {"p_start", "p_launch", "p_new_page", "p_set_content", "p_print", "p_close"}

PdfPrepareRegisteringEarly(r) ==
    /\ kind[r] = "pdf"
    /\ pc[r] = "p_start"
    /\ \E f \in Uuid4(issued) :
          /\ issued' = issued \cup {f}
          /\ file_id' = [file_id EXCEPT ![r] = f]
          /\ temp_files' = Registered(temp_files, f, EntryOf(f, title[r], PdfExt))
    /\ pc' = [pc EXCEPT ![r] = "p_launch"]
    /\ UNCHANGED <<kind, title, body, dlines, didx, doc, response, disk, download>>
    /\ UNCHANGED nvars

\* the synchronous head of the handler: normalize, md.convert, compose the
\* styled document, mint file_id and pdf_path
PdfPrepare(r) ==
    /\ kind[r] = "pdf"
    /\ pc[r] = "p_start"
    /\ \E f \in Uuid4(issued) :
          /\ issued' = issued \cup {f}
          /\ file_id' = [file_id EXCEPT ![r] = f]
    /\ pc' = [pc EXCEPT ![r] = "p_launch"]
    /\ UNCHANGED <<kind, title, body, dlines, didx, doc, response, temp_files, disk,
                   download>>
    /\ UNCHANGED nvars

\* async with async_playwright(), await p.chromium.launch(),
\* await browser.new_page(), await page.set_content(html_doc)
PdfAwait(r) ==
    /\ pc[r] \in {"p_launch", "p_new_page", "p_set_content"}
    /\ pc' = [pc EXCEPT ![r] = CASE pc[r] = "p_launch" -> "p_new_page"
                                 [] pc[r] = "p_new_page" -> "p_set_content"
                                 [] pc[r] = "p_set_content" -> "p_print"]
    /\ UNCHANGED <<kind, title, body, dlines, didx, doc, file_id, response, temp_files,
                   issued, disk, download>>
    /\ UNCHANGED nvars

\* await page.pdf(path=pdf_path, ...)
PdfPrint(r) ==
    /\ pc[r] = "p_print"
    /\ disk' = disk \cup {PathOf(file_id[r], PdfExt)}
    /\ pc' = [pc EXCEPT ![r] = "p_close"]
    /\ UNCHANGED <<kind, title, body, dlines, didx, doc, file_id, response, temp_files,
                   issued, download>>
    /\ UNCHANGED nvars

\* await browser.close(), leave the async with, temp_files[file_id] = ..., return
PdfFinish(r) ==
    /\ pc[r] = "p_close"
    /\ temp_files' = Registered(temp_files, file_id[r], EntryOf(file_id[r], title[r], PdfExt))
    /\ response' = [response EXCEPT ![r] = [status |-> 200, download_url |-> file_id[r]]]
    /\ pc' = [pc EXCEPT ![r] = "done"]
    /\ UNCHANGED <<kind, title, body, dlines, didx, doc, file_id, issued, disk, download>>
    /\ UNCHANGED nvars

\* except Exception, raised by any step; a failing page.pdf may leave a
\* partial file behind
PdfFail(r) ==
    /\ kind[r] = "pdf"
    /\ pc[r] \in PdfRunning
    /\ pc' = [pc EXCEPT ![r] = "failed"]
    /\ response' = [response EXCEPT ![r] =
                       [status |-> 500, detail |-> "PDF conversion failed"]]
    /\ IF pc[r] = "p_print"
       THEN disk' \in {disk, disk \cup {PathOf(file_id[r], PdfExt)}}
       ELSE disk' = disk
    /\ UNCHANGED <<kind, title, body, dlines, didx, doc, file_id, temp_files, issued,
                   download>>
    /\ UNCHANGED nvars

----------------------------------------------------------------------------
(* download_file *)

\* identifiers a client may ask for: 0 is one that was never minted
DownloadIds == IDs \cup {0}

DownloadOutcomeWithoutDiskCheck(id, reg, dsk) ==
    IF id \notin DOMAIN reg
    THEN [id |-> id, status |-> 404, detail |-> "File not found"]
    ELSE [id |-> id, status |-> 200, path |-> reg[id].path, filename |-> reg[id].filename]

\* what download_file answers for id, given the registry and the disk
DownloadOutcome(id, reg, dsk) ==
    IF id \notin DOMAIN reg
    THEN [id |-> id, status |-> 404, detail |-> "File not found"]
    ELSE IF reg[id].path \notin dsk
         THEN [id |-> id, status |-> 404, detail |-> "File not found on disk"]
         ELSE [id |-> id, status |-> 200, path |-> reg[id].path,
               filename |-> reg[id].filename]

Download(id) ==
    /\ download' = DownloadOutcome(id, temp_files, disk)
    /\ download' # download
    /\ UNCHANGED <<kind, title, body, pc, dlines, didx, doc, file_id, response,
                   temp_files, issued, disk>>
    /\ UNCHANGED nvars

\* the temp directory is not owned by the process: a file in it can go away
RemoveFile(p) ==
    /\ p \in disk
    /\ disk' = disk \ {p}
    /\ UNCHANGED <<kind, title, body, pc, dlines, didx, doc, file_id, response,
                   temp_files, issued, download>>
    /\ UNCHANGED nvars

----------------------------------------------------------------------------
(* Concurrent conversions and downloads *)

RegBodies == {<<"x">>}

InitReg ==
    /\ NormalizerIdle
    /\ kind \in [Requests -> {"pdf", "docx"}]
    /\ \E t \in Titles : title = [r \in Requests |-> t]
    /\ body \in [Requests -> RegBodies]
    /\ pc = [r \in Requests |-> IF kind[r] = "pdf" THEN "p_start" ELSE "d_start"]
    /\ dlines = [r \in Requests |-> <<>>]
    /\ didx = [r \in Requests |-> 0]
    /\ doc = [r \in Requests |-> <<>>]
    /\ file_id = [r \in Requests |-> 0]
    /\ response = [r \in Requests |-> [status |-> 0]]
    /\ temp_files = [i \in {} |-> 0]
    /\ issued = {}
    /\ disk = {}
    /\ download = [status |-> 0]

NextReg ==
    \/ \E r \in Requests :
          \/ DocxBegin(r) \/ DocxLine(r) \/ DocxFinish(r) \/ DocxFail(r) \/ DocxSaveFail(r)
          \/ PdfPrepare(r) \/ PdfAwait(r) \/ PdfPrint(r) \/ PdfFinish(r) \/ PdfFail(r)
    \/ \E id \in DownloadIds : Download(id)
    \/ \E p \in disk : RemoveFile(p)

SpecReg == InitReg /\ [][NextReg]_vars

----------------------------------------------------------------------------
(* Properties of the registry *)

ExtOf(k) == IF k = "pdf" THEN PdfExt ELSE DocxExt

StageMessage(k) == IF k = "pdf" THEN "PDF conversion failed" ELSE "DOCX conversion failed"

\* C5: no partial output is registered or returned: a conversion that fails
\* ends in one 500 answer with the message of its stage, without download_url,
\* and leaves the registry as it was; every entry of the registry belongs to
\* a conversion that ran to its end and answered 200 with that identifier,
\* and the identifier of a failed conversion is never a key.
C5_NoPartialOutput ==
    /\ [][\A r \in Requests :
            (pc[r] # "failed" /\ pc'[r] = "failed")
            => /\ temp_files' = temp_files
               /\ response'[r] = [status |-> 500, detail |-> StageMessage(kind[r])]]_vars
    /\ [](\A i \in DOMAIN temp_files :
             \E r \in Requests :
                /\ pc[r] = "done"
                /\ file_id[r] = i
                /\ response[r] = [status |-> 200, download_url |-> i])
    /\ [](\A r \in Requests :
             pc[r] = "failed"
             => /\ response[r].status = 500
                /\ "download_url" \notin DOMAIN response[r]
                /\ file_id[r] \notin DOMAIN temp_files)

\* a conversion failed after it minted its identifier and left a file behind,
\* the file is not registered, and another conversion is registered
C5_Witness ==
    \E r, q \in Requests :
       /\ pc[r] = "failed"
       /\ file_id[r] # 0
       /\ PathOf(file_id[r], ExtOf(kind[r])) \in disk
       /\ file_id[r] \notin DOMAIN temp_files
       /\ pc[q] = "done"
       /\ file_id[q] \in DOMAIN temp_files

\* C6: download lookup: a download answers 404 exactly when the identifier is
\* not a key of the registry or its file is not on disk, answers nothing but
\* 200 or 404, gives the registered path and filename when it answers 200,
\* and leaves the registry unchanged.
C6_DownloadLookup ==
    [][\A id \in DownloadIds :
         Download(id)
         => /\ temp_files' = temp_files
            /\ download'.id = id
            /\ download'.status \in {200, 404}
            /\ (download'.status = 404)
                  <=> (id \notin DOMAIN temp_files \/ temp_files[id].path \notin disk)
            /\ download'.status = 200
                  => /\ download'.path = temp_files[id].path
                     /\ download'.path \in disk
                     /\ download'.filename = temp_files[id].filename]_vars

\* a registered identifier whose file was removed was asked for and got 404
C6_Witness ==
    /\ download.status = 404
    /\ download.detail = "File not found on disk"
    /\ download.id \in DOMAIN temp_files
    /\ temp_files[download.id].path \notin disk

\* C9: every step keeps each existing entry as it is; the registry changes
\* only when a conversion succeeds, which adds exactly one entry under an
\* identifier that was not a key before; the identifier a conversion returned
\* maps to the path and filename of its own artifact, and two conversions
\* never hold the same identifier.
C9_UniqueKeys ==
    /\ [][/\ \A i \in DOMAIN temp_files :
                i \in DOMAIN temp_files' /\ temp_files'[i] = temp_files[i]
          /\ temp_files' # temp_files
                => \E r \in Requests : pc[r] # "done" /\ pc'[r] = "done"
          /\ \A r \in Requests :
                (pc[r] # "done" /\ pc'[r] = "done")
                => /\ file_id'[r] \notin DOMAIN temp_files
                   /\ DOMAIN temp_files' = (DOMAIN temp_files) \cup {file_id'[r]}
                   /\ response'[r] = [status |-> 200, download_url |-> file_id'[r]]]_vars
    /\ [](\A r \in Requests :
             pc[r] = "done"
             => /\ response[r].download_url \in DOMAIN temp_files
                /\ temp_files[response[r].download_url] =
                       EntryOf(file_id[r], title[r], ExtOf(kind[r])))
    /\ [](\A r, q \in Requests :
             (r # q /\ pc[r] = "done" /\ pc[q] = "done") => file_id[r] # file_id[q])

\* a DOCX conversion was registered while a PDF conversion that minted its
\* identifier is still rendering, and a download of the registered one succeeded
C9_Witness ==
    \E r, q \in Requests :
       /\ kind[r] = "pdf"
       /\ pc[r] = "p_close"
       /\ file_id[r] \notin DOMAIN temp_files
       /\ kind[q] = "docx"
       /\ pc[q] = "done"
       /\ file_id[q] \in DOMAIN temp_files
       /\ file_id[q] # file_id[r]
       /\ download.status = 200
       /\ download.id = file_id[q]

====
